---- MODULE Spec2Model ----
(***************************************************************************)
(* A model of bayesvp's parameter linkage (Config.py,                      *)
(* DefineParams.fitting_params) and of its convergence and model-selection *)
(* utilities (Utilities.py: compute_burin_GR, model_info_criterion,        *)
(* local_density_bf, compare_model).                                       *)
(*                                                                         *)
(* Strings are sequences of one-character strings, so that isalpha,        *)
(* islower, lower() and float() are computed character by character.       *)
(***************************************************************************)
EXTENDS Integers, Sequences, FiniteSets

VARIABLES
    \* ---- DefineParams.fitting_params ----
    component_lines,        \* the component lines' fields line[3], line[4], line[5]
    vp_params,              \* self.vp_params, flattened (flat_params)
    letters,                \* letters[i]: the tag letter found in slot i, or None
    unique_letters,         \* the letters the loop of line 237 has still to visit
    flags,                  \* flags / self.vp_params_flags
    n_free_params_counter,
    fp_pc,                  \* position in fitting_params
    prev_n_free,            \* {count of free indices of the previous run}, or {}
    \* ---- the files of one fitted model ----
    gr_file,                \* <chain_fname>_GR.dat: [steps, grs], grs[d][row]
    chain,                  \* <chain_fname>.npy: chain[step][walker][param]
    \* ---- compute_burin_GR, write_mcmc_stats ----
    burnin_steps,           \* what compute_burin_GR returned or raised
    stats_x,                \* write_mcmc_stats: the samples x of each parameter
    \* ---- model_info_criterion, compare_model ----
    model_selection,        \* the criterion token
    data_length,            \* len(obs_spec_obj.flux)
    L1, L2,                 \* the two scores handed to compare_model
    samples,                \* the rows of the chain the score is computed from
    medians,                \* np.median(samples, axis=0), in halves
    lnL,                    \* in thousandths
    info_result,            \* what model_info_criterion returned, or its exit
    compare_result,         \* what compare_model returned
    \* ---- estimate_bayes_factor ----
    traces,                 \* traces.T: the subsample's points, in hundredths
    logp,                   \* the log likelihood at each point, in thousandths
    radius,                 \* r, in hundredths
    count,                  \* the neighbour count of each point
    bf_points,              \* bf: each point's contribution
    bf_estimate             \* what estimate_bayes_factor returned

fpVars == <<component_lines, vp_params, letters, unique_letters, flags,
            n_free_params_counter, fp_pc, prev_n_free>>

fileVars == <<gr_file, chain>>

grVars == <<burnin_steps, stats_x>>

msVars == <<model_selection, data_length, L1, L2, samples, medians, lnL,
            info_result, compare_result>>

bfVars == <<traces, logp, radius, count, bf_points, bf_estimate>>

vars == <<fpVars, fileVars, grVars, msVars, bfVars>>

-----------------------------------------------------------------------------
(* Characters and Python's str predicates                                  *)

None == "None"

AlphabetLower == <<"a", "b", "c", "d", "e", "f", "i", "o", "s", "x", "y", "z">>

AlphabetUpper == <<"A", "B", "C", "D", "E", "F", "I", "O", "S", "X", "Y", "Z">>

LowerLetters == {AlphabetLower[k] : k \in DOMAIN AlphabetLower}

UpperLetters == {AlphabetUpper[k] : k \in DOMAIN AlphabetUpper}

Digits == {"0", "1", "2", "3", "4", "5", "6", "7", "8", "9"}

\* str.isalpha() of one character
isalpha(c) == c \in LowerLetters \cup UpperLetters

\* str.islower() of one character
islower(c) == c \in LowerLetters

\* str.lower(): each uppercase character replaced by its lowercase one
lower(s) ==
    [j \in DOMAIN s |->
        IF s[j] \in UpperLetters
        THEN AlphabetLower[CHOOSE k \in DOMAIN AlphabetUpper : AlphabetUpper[k] = s[j]]
        ELSE s[j]]

\* float(s) succeeds: digits with at most one point and at least one digit.
\* (Signs and exponents do not occur in the tokens modelled.)
IsFloat(s) ==
    /\ \A j \in DOMAIN s : s[j] \in Digits \cup {"."}
    /\ \E j \in DOMAIN s : s[j] \in Digits
    /\ Cardinality({j \in DOMAIN s : s[j] = "."}) <= 1

-----------------------------------------------------------------------------
(* DefineParams.fitting_params                                             *)

\* Most component lines a configuration holds.
MaxComp == 2

\* flags[index] = None stores nan in the float array.
NaN == -1

LogNTokens == { <<"1","3">>, <<"1","3","A">> }

BTokens == { <<"2","0">>, <<"2","a","0">>, <<"2","0","b">> }

ZTokens == { <<"0">>, <<"0","b">>, <<"0","B">>, <<"b","0">> }

\* Component lines with a column density or a Doppler width that is no
\* number: "1,3", and "2,0b" (tag b on "2,0")
UnparsedSpecs ==
    { << <<"1",",","3">>, <<"2","0">>, <<"0">> >>,
      << <<"1","3">>, <<"2",",","0","b">>, <<"0","b">> >> }

ComponentSpecs == (LogNTokens \X BTokens \X ZTokens) \cup UnparsedSpecs

SeqsUpTo(S, n) == UNION { [1..k -> S] : k \in 0..n }

\* line[5] with a trailing letter removed (lines 193-196)
temp_redshift(z) ==
    IF Len(z) > 0 /\ isalpha(z[Len(z)]) THEN SubSeq(z, 1, Len(z) - 1) ELSE z

\* np.array([logNs,bs,redshifts]).T.flatten(): logN, b, z of each component in turn
Flatten(lines) ==
    [i \in 1..(3 * Len(lines)) |-> lines[((i - 1) \div 3) + 1][((i - 1) % 3) + 1]]

\* lines 226-228: the last alphabetic character of the slot, None without any
LetterOf(s) ==
    LET alpha == {j \in DOMAIN s : isalpha(s[j])}
    IN  IF alpha = {} THEN None
        ELSE s[CHOOSE j \in alpha : \A k \in alpha : k <= j]

UntaggedBefore_stuck(ls, i) == 0

UntaggedBefore_reversed(ls, i) == Cardinality({k \in (i + 1)..Len(ls) : ls[k] = None})

\* lines 231-235: each untagged slot takes the counter's value, in slot order
UntaggedBefore(ls, i) == Cardinality({k \in 1..(i - 1) : ls[k] = None})

\* A call's result before the call
Unset == [tag |-> "unset", value |-> 0]

\* No chain and no Gelman-Rubin file written
NoFiles ==
    /\ gr_file = [steps |-> <<>>, grs |-> <<>>]
    /\ chain = <<>>

NoBurnin ==
    /\ burnin_steps = Unset
    /\ stats_x = <<>>

NoSelection ==
    /\ model_selection = <<>>
    /\ data_length = 0
    /\ L1 = 0
    /\ L2 = 0
    /\ samples = <<>>
    /\ medians = <<>>
    /\ lnL = 0
    /\ info_result = Unset
    /\ compare_result = "unset"

\* estimate_bayes_factor not called
NoEstimate ==
    /\ traces = <<>>
    /\ logp = <<>>
    /\ radius = 0
    /\ count = <<>>
    /\ bf_points = <<>>
    /\ bf_estimate = Unset

NoParams ==
    /\ component_lines = <<>>
    /\ vp_params = <<>>
    /\ letters = <<>>
    /\ unique_letters = {}
    /\ flags = <<>>
    /\ n_free_params_counter = 0
    /\ fp_pc = "idle"
    /\ prev_n_free = {}

FPInit ==
    /\ NoFiles /\ NoBurnin /\ NoSelection /\ NoEstimate
    /\ component_lines \in SeqsUpTo(ComponentSpecs, MaxComp)
    /\ vp_params = <<>>
    /\ letters = <<>>
    /\ unique_letters = {}
    /\ flags = <<>>
    /\ n_free_params_counter = 0
    /\ fp_pc = "read"
    /\ prev_n_free = {}

\* lines 181-209: float(temp_redshift), evaluated for each wavelength region
\* (fitting_data leaves at least one), raises ValueError on a redshift that
\* does not parse; otherwise vp_params holds the raw tokens.  logN and b are
\* not converted here.  The transition data looked up per region
\* (transitions_params_array) does not enter the flags and is left out.
ReadComponents ==
    /\ fp_pc = "read"
    /\ IF \A i \in DOMAIN component_lines : IsFloat(temp_redshift(component_lines[i][3]))
       THEN /\ vp_params' = Flatten(component_lines)
            /\ fp_pc' = "letters"
       ELSE /\ vp_params' = vp_params
            /\ fp_pc' = "ValueError"
    /\ UNCHANGED <<fileVars, grVars, msVars, bfVars>>
    /\ UNCHANGED <<component_lines, letters, unique_letters, flags,
                   n_free_params_counter, prev_n_free>>

\* lines 220-229
ScanLetters ==
    /\ fp_pc = "letters"
    /\ flags' = [i \in DOMAIN vp_params |-> 0]
    /\ letters' = [i \in DOMAIN vp_params |-> LetterOf(vp_params[i])]
    /\ unique_letters' = {LetterOf(vp_params[i]) : i \in DOMAIN vp_params} \ {None}
    /\ fp_pc' = "untagged"
    /\ UNCHANGED <<fileVars, grVars, msVars, bfVars>>
    /\ UNCHANGED <<component_lines, vp_params, n_free_params_counter, prev_n_free>>

\* lines 231-235
AssignUntagged ==
    /\ fp_pc = "untagged"
    /\ flags' = [i \in DOMAIN flags |->
                    IF letters[i] = None THEN UntaggedBefore(letters, i) ELSE flags[i]]
    /\ n_free_params_counter' = Cardinality({i \in DOMAIN letters : letters[i] = None})
    /\ fp_pc' = "groups"
    /\ UNCHANGED <<fileVars, grVars, msVars, bfVars>>
    /\ UNCHANGED <<component_lines, vp_params, letters, unique_letters, prev_n_free>>

TiedGroup_any(unique_letter) == TRUE

\* line 239: the test that makes a group a tied free parameter
TiedGroup(unique_letter) == islower(unique_letter)

NextCounter_stuck(n) == n

\* line 241: n_free_params_counter += 1
NextCounter(n) == n + 1

\* lines 237-244, one iteration; a set is visited in no particular order
AssignGroup ==
    /\ fp_pc = "groups"
    /\ \E unique_letter \in unique_letters :
          LET inds == {i \in DOMAIN letters : letters[i] = unique_letter}
          IN  /\ IF TiedGroup(unique_letter)
                 THEN /\ flags' = [i \in DOMAIN flags |->
                                      IF i \in inds THEN n_free_params_counter
                                                    ELSE flags[i]]
                      /\ n_free_params_counter' = NextCounter(n_free_params_counter)
                 ELSE /\ flags' = [i \in DOMAIN flags |->
                                      IF i \in inds THEN NaN ELSE flags[i]]
                      /\ n_free_params_counter' = n_free_params_counter
              /\ unique_letters' = unique_letters \ {unique_letter}
    /\ UNCHANGED <<fileVars, grVars, msVars, bfVars>>
    /\ UNCHANGED <<component_lines, vp_params, letters, fp_pc, prev_n_free>>

\* lines 246-248: self.vp_params_flags = np.array(flags)
StoreFlags ==
    /\ fp_pc = "groups"
    /\ unique_letters = {}
    /\ fp_pc' = "done"
    /\ UNCHANGED <<fileVars, grVars, msVars, bfVars>>
    /\ UNCHANGED <<component_lines, vp_params, letters, unique_letters, flags,
                   n_free_params_counter, prev_n_free>>

\* The distinct free indices of a constraint map
FreeIndices(fl) == {fl[i] : i \in DOMAIN fl} \ {NaN}

Reorderings(n) == {p \in [1..n -> 1..n] : \A i, j \in 1..n : p[i] = p[j] => i = j}

\* The same configuration with its component lines in another order, read by
\* a new DefineParams; the previous run's count of free indices is kept.
Reorder ==
    /\ fp_pc = "done"
    /\ \E p \in Reorderings(Len(component_lines)) :
          /\ \E i \in DOMAIN p : p[i] # i
          /\ component_lines' = [i \in DOMAIN component_lines |-> component_lines[p[i]]]
    /\ prev_n_free' = {Cardinality(FreeIndices(flags))}
    /\ vp_params' = <<>>
    /\ letters' = <<>>
    /\ unique_letters' = {}
    /\ flags' = <<>>
    /\ n_free_params_counter' = 0
    /\ fp_pc' = "read"
    /\ UNCHANGED <<fileVars, grVars, msVars, bfVars>>

FPNext ==
    \/ ReadComponents
    \/ ScanLetters
    \/ AssignUntagged
    \/ AssignGroup
    \/ StoreFlags
    \/ Reorder

SpecFP == FPInit /\ [][FPNext]_vars

-----------------------------------------------------------------------------
(* Gelman-Rubin burn-in: compute_burin_GR                                  *)

\* Most rows (checkpoints) of a Gelman-Rubin file.
MaxRows == 3

\* gr_threshold=1.01, in hundredths as the R values are
gr_threshold == 101

\* R values, in hundredths: below, at and above the threshold
RValues == {100, 101, 102}

StrictlyIncreasing(xs) == \A i, j \in DOMAIN xs : i < j => xs[i] < xs[j]

\* The files of D parameters with at most maxRows rows, the steps among stepValues
GRFiles(stepValues, D, maxRows) ==
    UNION { { [steps |-> st, grs |-> g] :
                st \in {x \in [1..n -> stepValues] : StrictlyIncreasing(x)},
                g \in [1..D -> [1..n -> RValues]] } : n \in 1..maxRows }

\* np.argmax of a boolean row: the first True, the first entry when none is
argmax(bs) ==
    IF \E j \in DOMAIN bs : bs[j]
    THEN CHOOSE j \in DOMAIN bs : bs[j] /\ \A k \in DOMAIN bs : bs[k] => j <= k
    ELSE 1

SetMax(S) == CHOOSE m \in S : \A x \in S : x <= m

\* line 338: grs <= gr_threshold
Converged(r) == r <= gr_threshold

\* lines 336-340. np.loadtxt squeezes a file of one row to one dimension, so
\* that grs has no axis 1 and np.argmax(..., axis=1) raises.
compute_burin_GR(file) ==
    IF Len(file.steps) = 1
    THEN [tag |-> "AxisError", value |-> 0]
    ELSE LET indices == [d \in DOMAIN file.grs |->
                            argmax([j \in DOMAIN file.grs[d] |-> Converged(file.grs[d][j])])]
         IN  [tag |-> "int",
              value |-> SetMax({file.steps[indices[d]] : d \in DOMAIN file.grs})]

GRStepValues == {50 * k : k \in 1..(MaxRows + 2)}

GRParams == {1, 2}

GRInit ==
    /\ NoParams /\ NoSelection /\ NoEstimate
    /\ gr_file \in UNION {GRFiles(GRStepValues, D, MaxRows) : D \in GRParams}
    /\ chain = <<>>
    /\ burnin_steps = Unset
    /\ stats_x = <<>>

\* A call of compute_burin_GR on the model's Gelman-Rubin file
ComputeBurninGR ==
    /\ chain = <<>>
    /\ burnin_steps = Unset
    /\ Len(gr_file.steps) > 0
    /\ burnin_steps' = compute_burin_GR(gr_file)
    /\ UNCHANGED <<fpVars, fileVars, stats_x, msVars, bfVars>>

GRNext == ComputeBurninGR

SpecGR == GRInit /\ [][GRNext]_vars

-----------------------------------------------------------------------------
(* Model selection: model_info_criterion, local_density_bf, compare_model  *)

\* Most free parameters of a fitted model (the chain's last axis).
MaxParams == 3

\* Scores handed to compare_model lie in -MaxScore..MaxScore.
MaxScore == 2

\* np.log10(2.7182818), in thousandths
Log10E == 434

tok_aic == <<"a", "i", "c">>

tok_bic == <<"b", "i", "c">>

tok_odds == <<"o", "d", "d", "s">>

tok_bf == <<"b", "f">>

tok_BF == <<"B", "F">>

\* The criterion tokens a configuration may give
SelectionTokens ==
    { tok_aic, <<"A", "I", "C">>, <<"A", "i", "c">>,
      tok_bic, <<"B", "I", "C">>, <<"B", "i", "c">>,
      tok_odds, <<"O", "D", "D", "S">>,
      tok_bf, tok_BF, <<"B", "f">>,
      <<"x", "y", "z">> }

\* len(obs_spec_obj.flux)
DataLengths == {10, 100, 1000}

\* np.log(data_length), in thousandths
np_log(n) ==
    CASE n = 1 -> 0 [] n = 2 -> 693 [] n = 3 -> 1099 [] n = 4 -> 1386
      [] n = 5 -> 1609 [] n = 6 -> 1792
      [] n = 10 -> 2303 [] n = 100 -> 4605 [] n = 1000 -> 6908

\* lnprob(medians): the posterior's log10 likelihood, in thousandths
Log10LValues == {-21700, -4340, 0}

\* The estimates local_density_bf may return, in thousandths
BFValues == {-1000, 500}

\* a / b of floats in fixed point, rounded down
Quot(a, b) == IF b > 0 THEN a \div b ELSE (0 - a) \div (0 - b)

\* chain.reshape((-1,n_params)): the rows of every step and walker
Rows(ch) ==
    IF ch = <<>> THEN <<>>
    ELSE LET W == Len(ch[1])
         IN  [r \in 1..(Len(ch) * W) |-> ch[((r - 1) \div W) + 1][((r - 1) % W) + 1]]

\* np.shape(chain)[-1]
NParams(ch) == Len(ch[1][1])

KthSmallest(xs, k) ==
    CHOOSE v \in {xs[i] : i \in DOMAIN xs} :
        /\ Cardinality({i \in DOMAIN xs : xs[i] < v}) < k
        /\ k <= Cardinality({i \in DOMAIN xs : xs[i] <= v})

\* np.median of a sequence, in halves: the middle value twice, or the sum of
\* the two middle values; nan of no value
Median2(xs) ==
    LET m == Len(xs)
    IN  IF m = 0 THEN NaN
        ELSE IF m % 2 = 1 THEN 2 * KthSmallest(xs, (m + 1) \div 2)
        ELSE KthSmallest(xs, m \div 2) + KthSmallest(xs, (m \div 2) + 1)

\* np.median(samples,axis=0)
MediansOf(rows, n_params) ==
    [p \in 1..n_params |-> Median2([r \in DOMAIN rows |-> rows[r][p]])]

\* line 113, the denominator of the correction term, in thousandths
AicDenominator(n_params, n) == np_log(n) - 1000 * n_params - 1000

\* line 113, in thousandths
Aic(lnl, n_params, n) ==
    (0 - 2) * lnl + 2000 * n_params
    + Quot(2 * n_params * (n_params + 1) * 1000 * 1000, AicDenominator(n_params, n))

\* line 115, in thousandths
Bic(lnl, n_params, n) == (0 - 2) * lnl + n_params * np_log(n)

\* line 95: the tokens that select the Bayes factor
SelectsBayesFactor(token) == lower(token) \in {tok_odds, tok_bf}

\* lines 85-119, with local_density_bf (lines 144-171) for odds and bf.
\* lnprob (Likelihood.Posterior) and the clustered KDE draw are outside these
\* files: the likelihood at the medians and the Bayes-factor estimate are any
\* of Log10LValues and BFValues.
ModelInfoCriterion ==
    /\ info_result = Unset
    /\ chain # <<>>
    /\ samples' = Rows(chain)
    /\ IF SelectsBayesFactor(model_selection)
       THEN /\ \E bf \in BFValues : info_result' = [tag |-> "bf", value |-> bf]
            /\ UNCHANGED <<medians, lnL>>
       ELSE /\ medians' = MediansOf(Rows(chain), NParams(chain))
            /\ \E log10_L \in Log10LValues : lnL' = Quot(log10_L * 1000, Log10E)
            /\ info_result' =
                  IF lower(model_selection) = tok_aic
                  THEN [tag |-> "score", value |-> Aic(lnL', NParams(chain), data_length)]
                  ELSE IF lower(model_selection) = tok_bic
                  THEN [tag |-> "score", value |-> Bic(lnL', NParams(chain), data_length)]
                  ELSE [tag |-> "exit", value |-> 0]
    /\ UNCHANGED <<fpVars, fileVars, grVars, bfVars, model_selection, data_length, L1, L2,
                   compare_result>>

bool(b) == IF b THEN "True" ELSE "False"

LowerWins_strict(l1, l2) == l1 < l2

\* line 183
LowerWins(l1, l2) == l1 <= l2

\* lines 173-185; a call that matches neither test returns None
compare_model(l1, l2, token) ==
    IF token \in {tok_bic, tok_aic} THEN bool(LowerWins(l1, l2))
    ELSE IF token \in {tok_odds, tok_BF, tok_bf} THEN bool(l1 - l2 >= 0)
    ELSE "None"

CompareModel ==
    /\ compare_result = "unset"
    /\ model_selection # <<>>
    /\ compare_result' = compare_model(L1, L2, model_selection)
    /\ UNCHANGED <<fpVars, fileVars, grVars, bfVars, model_selection, data_length, L1, L2,
                   samples, medians, lnL, info_result>>

\* A chain of one step and one walker with k parameters
OneSampleChain(k) == << << [p \in 1..k |-> 0] >> >>

MSInit ==
    /\ NoParams /\ NoBurnin /\ NoEstimate
    /\ gr_file = [steps |-> <<>>, grs |-> <<>>]
    /\ chain \in {OneSampleChain(k) : k \in 1..MaxParams}
    /\ model_selection \in SelectionTokens
    /\ data_length \in DataLengths
    /\ L1 \in (0 - MaxScore)..MaxScore
    /\ L2 \in (0 - MaxScore)..MaxScore
    /\ samples = <<>>
    /\ medians = <<>>
    /\ lnL = 0
    /\ info_result = Unset
    /\ compare_result = "unset"

MSNext ==
    \/ ModelInfoCriterion
    \/ CompareModel

SpecMS == MSInit /\ [][MSNext]_vars

-----------------------------------------------------------------------------
(* One fitted model's post-processing: write_mcmc_stats and the scoring    *)

\* Steps of the chain of a fitted model.
ChainSteps == 3

ChainWalkers == {1, 2}

ChainValues == {0, 1}

\* chain[burnin:]: the steps from index burnin on (indices start at 0)
FromStep(ch, burnin) == SubSeq(ch, burnin + 1, Len(ch))

\* lines 233-253: burn-in from the Gelman-Rubin file, then the statistics of
\* each parameter's samples from the burn-in step on
WriteMcmcStats ==
    /\ burnin_steps = Unset
    /\ chain # <<>>
    /\ LET burnin == compute_burin_GR(gr_file)
       IN  /\ burnin_steps' = burnin
           /\ stats_x' =
                 IF burnin.tag = "int"
                 THEN [p \in 1..NParams(chain) |->
                         LET rows == Rows(FromStep(chain, burnin.value))
                             x    == [r \in DOMAIN rows |-> rows[r][p]]
                         IN  [x |-> x, xmed |-> Median2(x)]]
                 ELSE stats_x
    /\ UNCHANGED <<fpVars, fileVars, msVars, bfVars>>

PipeInit ==
    /\ NoParams /\ NoEstimate
    /\ chain \in [1..ChainSteps -> [ChainWalkers -> [{1} -> ChainValues]]]
    /\ gr_file \in GRFiles(0..(ChainSteps - 1), 1, MaxRows)
    /\ burnin_steps = Unset
    /\ stats_x = <<>>
    /\ model_selection \in {tok_aic, tok_bic, tok_bf}
    /\ data_length \in {100}
    /\ L1 = 0
    /\ L2 = 0
    /\ samples = <<>>
    /\ medians = <<>>
    /\ lnL = 0
    /\ info_result = Unset
    /\ compare_result = "unset"

PipeNext ==
    \/ WriteMcmcStats
    \/ ModelInfoCriterion

SpecPipe == PipeInit /\ [][PipeNext]_vars

-----------------------------------------------------------------------------
(* The local-density Bayes factor: estimate_bayes_factor                   *)

\* Most points of a subsample.
MaxSub == 3

\* The points a subsample is drawn from, by dimension, in hundredths
Points(ndim) ==
    IF ndim = 1 THEN { <<0>>, <<3>>, <<10>> }
    ELSE { <<0, 0>>, <<3, 3>>, <<3, 4>>, <<10, 0>> }

\* r, in hundredths; 5 is the default r=0.05
RadiusValues == {1, 5, 20}

LogpValues == {-2000, 0}

\* A float: finite with its value, or inf / nan
Finite(v) == [finite |-> TRUE, value |-> v]

NotFinite == [finite |-> FALSE, value |-> 0]

\* line 130: np.log(Vr), Vr = pi^(ndim/2) / gamma(ndim/2 + 1) * r^ndim, in
\* thousandths (2r for one dimension, pi r^2 for two)
log_Vr(ndim, rad) ==
    CASE ndim = 1 /\ rad = 1 -> -3912
      [] ndim = 1 /\ rad = 5 -> -2303
      [] ndim = 1 /\ rad = 20 -> -916
      [] ndim = 2 /\ rad = 1 -> -8066
      [] ndim = 2 /\ rad = 5 -> -4847
      [] ndim = 2 /\ rad = 20 -> -2074

SqDist(x, y) ==
    LET sq[d \in 0..Len(x)] ==
            IF d = 0 THEN 0 ELSE sq[d - 1] + (x[d] - y[d]) * (x[d] - y[d])
    IN  sq[Len(x)]

NeighborCount_others(pts, i, rad) ==
    Cardinality({j \in DOMAIN pts : j # i /\ SqDist(pts[i], pts[j]) <= rad * rad})

\* lines 133-134: the tree holds the points that are queried, so a point is
\* among the points within r of itself
NeighborCount(pts, i, rad) ==
    Cardinality({j \in DOMAIN pts : SqDist(pts[i], pts[j]) <= rad * rad})

\* line 137: logp + np.log(nsteps) + np.log(Vr) - np.log(count); np.log(0) is -inf
Contribution(lp, nsteps, ndim, rad, c) ==
    IF c = 0 THEN NotFinite
    ELSE Finite(lp + np_log(nsteps) + log_Vr(ndim, rad) - np_log(c))

\* The k-th smallest of floats, inf after every finite value
KthFloat(xs, k) ==
    LET fin  == {i \in DOMAIN xs : xs[i].finite}
        vals == {xs[i].value : i \in fin}
    IN  IF k > Cardinality(fin) THEN NotFinite
        ELSE Finite(CHOOSE v \in vals :
                       /\ Cardinality({i \in fin : xs[i].value < v}) < k
                       /\ k <= Cardinality({i \in fin : xs[i].value <= v}))

\* np.percentile(xs, 25 * q4), four times its value: linear interpolation
\* between the sorted values around position q4 (n - 1) / 4
Percentile4(xs, q4) ==
    LET pos == q4 * (Len(xs) - 1)
        lo  == KthFloat(xs, (pos \div 4) + 1)
        f   == pos % 4
    IN  IF f = 0 THEN (IF lo.finite THEN Finite(4 * lo.value) ELSE NotFinite)
        ELSE LET hi == KthFloat(xs, (pos \div 4) + 2)
             IN  IF lo.finite /\ hi.finite
                 THEN Finite((4 - f) * lo.value + f * hi.value)
                 ELSE NotFinite

\* lines 121-140
EstimateBayesFactor ==
    /\ bf_estimate.tag = "unset"
    /\ Len(traces) > 0
    /\ LET nsteps == Len(traces)
           ndim   == Len(traces[1])
           cnt    == [i \in DOMAIN traces |-> NeighborCount(traces, i, radius)]
           bf     == [i \in DOMAIN traces |->
                         Contribution(logp[i], nsteps, ndim, radius, cnt[i])]
           p25    == Percentile4(bf, 1)
           p50    == Percentile4(bf, 2)
           p75    == Percentile4(bf, 3)
       IN  /\ count' = cnt
           /\ bf_points' = bf
           /\ bf_estimate' =
                 [tag    |-> "returned",
                  p50    |-> IF p50.finite THEN Finite(Quot(p50.value, 4)) ELSE NotFinite,
                  spread |-> IF p25.finite /\ p75.finite
                             THEN Finite(Quot(7413 * (p75.value - p25.value), 40000))
                             ELSE NotFinite]
    /\ UNCHANGED <<fpVars, fileVars, grVars, msVars, traces, logp, radius>>

BFInit ==
    /\ NoParams /\ NoFiles /\ NoBurnin /\ NoSelection
    /\ \E ndim \in {1, 2} : \E n \in 1..MaxSub :
          /\ traces \in [1..n -> Points(ndim)]
          /\ logp \in [1..n -> LogpValues]
    /\ radius \in RadiusValues
    /\ count = <<>>
    /\ bf_points = <<>>
    /\ bf_estimate = Unset

BFNext == EstimateBayesFactor

SpecBF == BFInit /\ [][BFNext]_vars

-----------------------------------------------------------------------------
(* Properties of fitting_params                                            *)

\* The slots as the configuration gives them
RawSlots == Flatten(component_lines)

CharsOf(s) == {s[j] : j \in DOMAIN s}

\* Raw value s carries the letter c
Carries(s, c) == c \in CharsOf(s)

Untagged(s) == \A j \in DOMAIN s : ~isalpha(s[j])

\* C1: once fitting_params has built vp_params_flags, any two slots whose raw
\* values carry the same lowercase tag letter have the same free index, and
\* no slot outside the tag group holds that index.
C1_TiedSlotsShareOneIndex ==
    fp_pc = "done" =>
        \A i, j \in DOMAIN RawSlots : \A c \in LowerLetters \cap CharsOf(RawSlots[i]) :
            Carries(RawSlots[j], c) =>
                /\ flags[i] # NaN
                /\ flags[i] = flags[j]
                /\ \A k \in DOMAIN RawSlots :
                      flags[k] = flags[i] => Carries(RawSlots[k], c)

\* A finished run with two slots tied by one lowercase letter, a second
\* lowercase group and an untagged slot.
C1_Witness ==
    /\ fp_pc = "done"
    /\ \E i, j \in DOMAIN RawSlots :
          /\ i # j
          /\ Carries(RawSlots[i], "a") /\ Carries(RawSlots[j], "a")
          /\ flags[i] = flags[j]
    /\ \E k \in DOMAIN RawSlots : Carries(RawSlots[k], "b")
    /\ \E k \in DOMAIN RawSlots : Untagged(RawSlots[k])

\* C2: a slot tagged with an uppercase letter is marked fixed in
\* vp_params_flags (it holds no free index, also when its tag occurs once),
\* no free index stands for it, and its raw value is kept in vp_params.
C2_UppercaseSlotsFixed ==
    fp_pc = "done" =>
        \A i \in DOMAIN RawSlots :
            (\E c \in UpperLetters : Carries(RawSlots[i], c)) =>
                /\ flags[i] = NaN
                /\ \A n \in FreeIndices(flags) : flags[i] # n
                /\ vp_params[i] = RawSlots[i]

\* A finished run in which an uppercase tag occurs exactly once, beside free slots.
C2_Witness ==
    /\ fp_pc = "done"
    /\ \E i \in DOMAIN RawSlots :
          /\ Carries(RawSlots[i], "A")
          /\ \A j \in DOMAIN RawSlots : Carries(RawSlots[j], "A") => j = i
          /\ flags[i] = NaN
    /\ FreeIndices(flags) # {}

\* C3: the number of distinct free indices is the number of untagged slots
\* plus the number of distinct lowercase tag letters, and a run on the same
\* components in another order gives the same number.
C3_FreeCount ==
    fp_pc = "done" =>
        /\ Cardinality(FreeIndices(flags)) =
              Cardinality({i \in DOMAIN RawSlots : Untagged(RawSlots[i])})
              + Cardinality(LowerLetters \cap UNION {CharsOf(RawSlots[i]) : i \in DOMAIN RawSlots})
        /\ \A n \in prev_n_free : Cardinality(FreeIndices(flags)) = n

\* A second run, on reordered components that differ, with untagged slots,
\* a tied group and a fixed slot.
C3_Witness ==
    /\ fp_pc = "done"
    /\ prev_n_free # {}
    /\ Len(component_lines) >= 2
    /\ component_lines[1] # component_lines[2]
    /\ \E i, j \in DOMAIN RawSlots :
          i # j /\ Carries(RawSlots[i], "b") /\ Carries(RawSlots[j], "b")
    /\ \E i \in DOMAIN RawSlots : Untagged(RawSlots[i])
    /\ \E i \in DOMAIN RawSlots : flags[i] = NaN

\* The raw value with its tag letter removed
WithoutTag(s) ==
    LET keep == {j \in DOMAIN s : ~isalpha(s[j])}
        nth[k \in 0..Len(s)] ==
            IF k = 0 THEN 0
            ELSE CHOOSE j \in keep : j > nth[k - 1] /\ \A m \in keep : m > nth[k - 1] => j <= m
    IN  [k \in 1..Cardinality(keep) |-> s[nth[k]]]

\* C12: fitting_params accepts no slot it cannot parse: when the raw token of
\* a logN, b or z slot with its tag letter removed is no valid number, the
\* run ends in an error and no constraint map is produced.
C12_UnparsedSlotRejected ==
    (\E i \in DOMAIN RawSlots : ~IsFloat(WithoutTag(RawSlots[i]))) =>
        fp_pc # "done"

\* C13: untagged slots hold the free indices 0, 1, 2, ... in encounter order,
\* each lowercase tag group holds one of the next counter values, and the
\* free indices in use are exactly 0 .. count-1, none shared by two groups
\* or by a group and an untagged slot.
C13_IndicesInEncounterOrder ==
    fp_pc = "done" =>
        LET untagged == {i \in DOMAIN RawSlots : Untagged(RawSlots[i])}
            tied     == LowerLetters \cap UNION {CharsOf(RawSlots[i]) : i \in DOMAIN RawSlots}
        IN  /\ \A i \in untagged :
                  flags[i] = Cardinality({k \in untagged : k < i})
            /\ \A c \in tied : \A i \in DOMAIN RawSlots :
                  Carries(RawSlots[i], c) =>
                      /\ flags[i] >= Cardinality(untagged)
                      /\ \A j \in DOMAIN RawSlots :
                            flags[j] = flags[i] => Carries(RawSlots[j], c)
            /\ FreeIndices(flags) = 0..(Cardinality(untagged) + Cardinality(tied) - 1)
            /\ n_free_params_counter = Cardinality(FreeIndices(flags))

\* A finished run with untagged slots after tagged ones, two lowercase
\* groups and a fixed slot.
C13_Witness ==
    /\ fp_pc = "done"
    /\ \E i, j \in DOMAIN RawSlots :
          /\ i < j
          /\ Untagged(RawSlots[i]) /\ Untagged(RawSlots[j])
          /\ \E k \in DOMAIN RawSlots : i < k /\ k < j /\ ~Untagged(RawSlots[k])
    /\ \E i \in DOMAIN RawSlots : Carries(RawSlots[i], "a")
    /\ \E i \in DOMAIN RawSlots : Carries(RawSlots[i], "b")
    /\ \E i \in DOMAIN RawSlots : flags[i] = NaN

-----------------------------------------------------------------------------
(* Properties of compute_burin_GR                                          *)

\* The first step of parameter d at which R <= threshold
FirstCrossing(file, d) ==
    LET rows == {j \in DOMAIN file.steps : file.grs[d][j] <= gr_threshold}
    IN  file.steps[CHOOSE j \in rows : \A k \in rows : j <= k]

EveryParameterCrosses(file) ==
    \A d \in DOMAIN file.grs : \E j \in DOMAIN file.steps : file.grs[d][j] <= gr_threshold

\* C4: on a trajectory with monotonic steps in which every parameter has a
\* step with R <= threshold, compute_burin_GR returns the maximum over the
\* parameters of each parameter's first such step.
C4_BurninIsMaxFirstCrossing ==
    (burnin_steps # Unset /\ EveryParameterCrosses(gr_file)) =>
        /\ burnin_steps.tag = "int"
        /\ burnin_steps.value =
              SetMax({FirstCrossing(gr_file, d) : d \in DOMAIN gr_file.grs})

\* The same on trajectories of at least two rows.
C4_FromTwoRows ==
    (burnin_steps # Unset /\ EveryParameterCrosses(gr_file) /\ Len(gr_file.steps) >= 2) =>
        /\ burnin_steps.tag = "int"
        /\ burnin_steps.value =
              SetMax({FirstCrossing(gr_file, d) : d \in DOMAIN gr_file.grs})

\* Parameter A first crosses at step 100 and B at step 250: the burn-in is 250.
C4_Example ==
    /\ burnin_steps = [tag |-> "int", value |-> 250]
    /\ Len(gr_file.grs) = 2
    /\ EveryParameterCrosses(gr_file)
    /\ FirstCrossing(gr_file, 1) = 100
    /\ FirstCrossing(gr_file, 2) = 250

\* C5: when some parameter's R is above the threshold at every step,
\* compute_burin_GR does not return a burn-in step: it fails or reports it.
C5_NeverConvergedDetected ==
    (burnin_steps # Unset /\ ~EveryParameterCrosses(gr_file)) =>
        burnin_steps.tag # "int"

-----------------------------------------------------------------------------
(* Properties of model selection                                           *)

Kinds == {tok_aic, tok_bic, tok_odds, tok_bf}

\* C6: compare_model reports model 1 as the winner iff L1 <= L2 for aic and
\* bic, and iff L1 - L2 >= 0 for bf and odds.
C6_CompareRule ==
    compare_result # "unset" =>
        /\ model_selection \in {tok_aic, tok_bic} =>
              /\ compare_result \in {"True", "False"}
              /\ compare_result = "True" <=> L1 <= L2
        /\ model_selection \in {tok_bf, tok_odds} =>
              /\ compare_result \in {"True", "False"}
              /\ compare_result = "True" <=> L1 - L2 >= 0

\* Equal scores compared under bic: model 1 wins.
C6_Witness ==
    /\ model_selection = tok_bic
    /\ L1 = L2
    /\ compare_result = "True"

\* C7: for a kind that is none of aic, bic, odds, bf, model_info_criterion
\* and compare_model fail with an error; neither returns a score or an answer.
C7_UnknownKindFails ==
    lower(model_selection) \notin Kinds =>
        /\ info_result.tag \in {"unset", "exit"}
        /\ compare_result \in {"unset", "raised"}

\* C8: for a token that is aic, bic, odds or bf once lowercased, both
\* model_info_criterion and compare_model do what they do for the lowercase
\* token.
C8_TokenCaseInsensitive ==
    lower(model_selection) \in Kinds =>
        /\ compare_result # "unset" =>
              compare_result = compare_model(L1, L2, lower(model_selection))
        /\ info_result # Unset =>
              info_result.tag =
                  IF lower(model_selection) \in {tok_odds, tok_bf} THEN "bf" ELSE "score"

\* C9: for aic, model_info_criterion returns
\* -2 lnL + 2k + 2k(k+1)/(n - k - 1), k the number of free parameters and n
\* the length of the flux data (in thousandths here).
C9_AicFormula ==
    (info_result.tag = "score" /\ lower(model_selection) = tok_aic) =>
        LET k == NParams(chain)
            n == data_length
        IN  info_result.value =
                (0 - 2) * lnL + 2000 * k + Quot(2 * k * (k + 1) * 1000, n - k - 1)

\* C10: the score is computed only from the chain's samples at or after the
\* burn-in step; stated of the runs in which the burn-in step is known.
C10_ScoreFromPostBurninSamples ==
    (info_result.tag \in {"score", "bf"} /\ burnin_steps.tag = "int") =>
        /\ samples = Rows(FromStep(chain, burnin_steps.value))
        /\ info_result.tag = "score" =>
              medians = MediansOf(Rows(FromStep(chain, burnin_steps.value)), NParams(chain))

-----------------------------------------------------------------------------
(* Properties of estimate_bayes_factor                                     *)

\* C11: for every subsample and every radius r > 0, no point's contribution
\* is computed from a neighbour count of zero: the logarithm of the count is
\* never taken at 0, and neither the estimate nor its spread is infinite or
\* nan.
C11_NoZeroNeighbourCount ==
    bf_estimate.tag = "returned" =>
        /\ \A i \in DOMAIN traces : count[i] >= 1 /\ bf_points[i].finite
        /\ bf_estimate.p50.finite
        /\ bf_estimate.spread.finite

\* An estimate over a subsample with a point that has no other point within
\* r, beside a point that has one.
C11_Witness ==
    /\ bf_estimate.tag = "returned"
    /\ \E i \in DOMAIN traces :
          /\ count[i] = 1
          /\ \A j \in DOMAIN traces : j # i => SqDist(traces[i], traces[j]) > radius * radius
    /\ \E i \in DOMAIN traces : count[i] >= 2

====
